---- MODULE Spec2Model ----
(***************************************************************************)
(* Multi-client TCP chat server (src/windows/server.cpp).                  *)
(*                                                                         *)
(* One accept loop (main) and one detached thread per accepted connection  *)
(* (handle_client).  The threads share client_sockets, guarded by          *)
(* clients_mutex.  Every lock acquisition, every send, every recv and      *)
(* every closesocket is one step, so that all interleavings of the         *)
(* threads at these points are explored.  The variables marked history     *)
(* record what was sent; the code has no counterpart for them.             *)
(*                                                                         *)
(* A connection is numbered by the order in which accept returned it       *)
(* (1, 2, ...).  Its SOCKET value is chosen by the transport among the     *)
(* handle values that are not open, so the value of a closed socket can    *)
(* be handed out again.  The code only compares SOCKET values for equality *)
(* and prints them, so values never used before are handed out in          *)
(* increasing order; which closed value is handed out again is free.       *)
(*                                                                         *)
(* Spec is the server from the first accept on, every recv returning one   *)
(* line; SpecChunks lets recv return any chunk; FairSpec adds the          *)
(* scheduling of the threads; SpecBoot is main before the loop, for every  *)
(* port argument.                                                          *)
(***************************************************************************)
EXTENDS Integers, Sequences, FiniteSets, Bags, TLC

\* ------------------------------------------------------------------ bounds
\* Number of connections the accept loop accepts in a run.
MaxConn == 3
\* Number of chunks the handlers' recv calls return in a run, all
\* connections together.
MaxMsgs == 2
\* Length of the longest port argument tried.
MaxPortLen == 5
\* Length of the longest chunk one recv returns (sizeof(buffer), scaled down).
MaxChunk == 2

\* --------------------------------------------------------------- constants
\* The value accept returns on failure, and the sender_socket of a departure
\* notice (the literal -1 of line 164 converts to INVALID_SOCKET).
INVALID_SOCKET == -1
\* The thread running main; handler threads carry their connection's number.
MainTask == 0

\* The connections, numbered in the order accept returns them.
Conns == 1..MaxConn
\* The SOCKET values: MaxConn connections never need more than MaxConn.
Handles == 1..MaxConn
Tasks == {MainTask} \cup Conns

VARIABLES
    client_sockets,  \* std::vector<SOCKET>, the shared list
    clients_mutex,   \* the set of tasks holding clients_mutex
    argc,            \* number of command-line words, the program's name included
    argv1,           \* argv[1], a sequence of characters
    port,            \* int port
    mainpc,          \* position of main: before the loop "start", "winsock",
                     \* "stoi", "socket", "bind", "listen"; in the loop
                     \* "accept", "lock", "push", "spawn"; "exit1" after
                     \* return 1, "terminated" after an uncaught exception
    listener,        \* server_socket: "none", "created", "bound", "listening",
                     \* "closed", or "failed" for good
    naccepted,       \* number of connections accept has returned
    sock,            \* sock[c]: SOCKET value of connection c
    pc,              \* pc[c]: position of handle_client for connection c
    nrecv,           \* nrecv[c]: chunks recv has returned to handler c
    buffer,          \* buffer[c]: the bytes_received bytes the last recv of
                     \* handler c put in buffer, until their broadcast returns
    message,         \* message[c]: argument of the running broadcast_message
    sender,          \* sender[c]: sender_socket of the running broadcast_message
    it,              \* it[c]: position of the range-for in client_sockets
    failed,          \* failed[c]: position of the first send that failed in the
                     \* running call, 0 when none did
    sentTo,          \* history: sentTo[c], the bag of messages sent on c by
                     \* the broadcast_message calls that have not returned
    sentClosed,      \* history: a send was issued on a handle that is not open
    lastDone,        \* history: lastDone[c], the chunk number of the last
                     \* broadcast_message call of handler c that returned
    noticeCalls      \* history: noticeCalls[c], the number of departure
                     \* notices handler c has started to broadcast

vars == <<argc, argv1, port,
          client_sockets, clients_mutex, mainpc, listener, naccepted, sock,
          pc, nrecv, buffer, message, sender, it, failed, sentTo, sentClosed,
          lastDone, noticeCalls>>

bootVars == <<argc, argv1, port>>
mainVars == <<mainpc, listener, naccepted, sock>>
callVars == <<message, sender, it, failed>>
histVars == <<sentTo, sentClosed, lastDone, noticeCalls>>

\* ----------------------------------------------------------------- helpers
Range(s) == {s[i] : i \in 1..Len(s)}

\* The bytes a client can send, and the chunks one recv can return: any
\* 1..MaxChunk bytes, whole lines, several lines or part of one.
Bytes == {"a", "\n"}
Chunks == UNION {[1..n -> Bytes] : n \in 1..MaxChunk}

\* One line of input as client.cpp sends it: its characters, no newline.
Line == <<"a">>

\* std::string client_id = "Client " + std::to_string(client_socket);
client_id(s) == <<"Client ", ToString(s)>>

\* A relay that ends every message with a newline.
broadcast_msg_line(s, b) == client_id(s) \o <<": ">> \o b \o <<"\n">>

\* std::string broadcast_msg = client_id + ": " + message;
broadcast_msg(s, b) == client_id(s) \o <<": ">> \o b

\* std::string disconnect_msg = client_id + " has left the chat.";
disconnect_msg(s) == client_id(s) \o <<" has left the chat.">>

NoMsg == [from |-> 0, id |-> INVALID_SOCKET, seq |-> 0, kind |-> "none",
          text |-> <<>>]

\* A message built from a buffer that still holds the first chunk.
ChatMsgStale(c, s, k, b) ==
    [from |-> c, id |-> s, seq |-> 1, kind |-> "chat",
     text |-> broadcast_msg(s, b)]

\* client_id + ": " + message: the chunk number k of connection c, tagged
\* with the SOCKET value of c.
ChatMsg(c, s, k, b) ==
    [from |-> c, id |-> s, seq |-> k, kind |-> "chat",
     text |-> broadcast_msg(s, b)]

\* client_id + " has left the chat."
LeftMsg(c, s) ==
    [from |-> c, id |-> s, seq |-> 0, kind |-> "left",
     text |-> disconnect_msg(s)]

\* Connection c is open at the server: accepted, and not yet closed by its
\* handler.
IsOpen(c) == c <= naccepted /\ pc[c] /= "done"

OpenHandles == {sock[c] : c \in {d \in Conns : IsOpen(d)}}

\* The connections a send on SOCKET value h writes to (at most one).
Owner(h) == {c \in Conns : IsOpen(c) /\ sock[c] = h}

RECURSIVE SumTo(_, _)
SumTo(f, n) == IF n = 0 THEN 0 ELSE f[n] + SumTo(f, n - 1)

\* The chunks received so far, all handlers together.
NumReceived == SumTo(nrecv, MaxConn)

\* A lock that never waits.
CanLockAlways(m) == TRUE

\* std::lock_guard's constructor returns only when the mutex is free.
CanLock(m) == m = {}

\* An accept loop that forgets the push_back.
PushNothing(v, s) == v

\* client_sockets.push_back(client_socket)
PushBack(v, s) == Append(v, s)

\* pop_back in place of erase-remove.
EraseLast(v, s) == SubSeq(v, 1, Len(v) - 1)

\* erase-remove with the test inverted: every other entry goes.
EraseOthers(v, s) == SelectSeq(v, LAMBDA x : x = s)

\* A removal that leaves the vector as it was.
EraseNothing(v, s) == v

\* std::remove without the erase: the kept elements move to the front and
\* the tail keeps its old values.
RemoveWithoutErase(v, s) ==
    LET kept == SelectSeq(v, LAMBDA x : x /= s)
    IN  kept \o SubSeq(v, Len(kept) + 1, Len(v))

\* The one-iterator erase: erases the single element std::remove returns,
\* which is the last element when s is absent.
EraseOneIterator(v, s) ==
    IF \E i \in 1..Len(v) : v[i] = s
    THEN SelectSeq(v, LAMBDA x : x /= s)
    ELSE SubSeq(v, 1, Len(v) - 1)

\* client_sockets.erase(std::remove(begin, end, client_socket), end)
Erase(v, s) == SelectSeq(v, LAMBDA x : x /= s)

\* A test by order in place of the test for inequality.
IsRecipientAbove(socket, sender_socket) == socket > sender_socket

\* A test that lets the sender through.
IsRecipientAll(socket, sender_socket) == TRUE

\* if (socket != sender_socket)
IsRecipient(socket, sender_socket) == socket /= sender_socket

\* A loop that breaks at the first send that fails.
AfterSendBreak(i, ok, n) == IF ok THEN i + 1 ELSE n + 1

\* The range-for goes on to the next element whatever send returned.
AfterSend(i, ok, n) == i + 1

\* A handler that closes its socket after every broadcast.
AfterBroadcastClose(kind) == "close"

\* A handler without the break: it goes back to recv after the notice too.
AfterBroadcastNoBreak(kind) == "recv"

\* Where handle_client goes on when broadcast_message returns: to recv after
\* a chunk, to closesocket and break after the departure notice.
AfterBroadcast(kind) == IF kind = "left" THEN "close" ELSE "recv"

\* The bag B without the copies of m.
Forget(B, m) ==
    IF BagIn(m, B) THEN B (-) [x \in {m} |-> CopiesIn(m, B)] ELSE B

\* ------------------------------------------------------ main, before the loop
\* The characters a port argument is made of: a digit, a letter, a sign.
PortChars == {"8", "x", "-"}

\* The port arguments tried: every string of at most MaxPortLen characters.
PortStrings == UNION {[1..n -> PortChars] : n \in 0..MaxPortLen}

IsDigit(ch) == ch = "8"
DigitValue(ch) == 8

\* The largest int.
IntMax == 2147483647

\* The length of the longest prefix of str made of digits.
RECURSIVE DigitPrefix(_)
DigitPrefix(str) ==
    IF Len(str) = 0 \/ ~IsDigit(str[1]) THEN 0 ELSE 1 + DigitPrefix(Tail(str))

\* The number the first n characters of str, all digits, denote.
RECURSIVE Decimal(_, _)
Decimal(str, n) ==
    IF n = 0 THEN 0 ELSE 10 * Decimal(str, n - 1) + DigitValue(str[n])

\* std::stoi(str): an optional sign, then the longest run of digits; what
\* follows the digits is ignored.  It throws std::invalid_argument when
\* there is no digit and std::out_of_range when the number is no int.
Stoi(str) ==
    LET neg  == Len(str) > 0 /\ str[1] = "-"
        rest == IF neg THEN Tail(str) ELSE str
        n    == DigitPrefix(rest)
        abs  == Decimal(rest, n)
    IN  IF n = 0 THEN [ok |-> FALSE, value |-> 0]
        ELSE IF abs > IntMax THEN [ok |-> FALSE, value |-> 0]
        ELSE [ok |-> TRUE, value |-> IF neg THEN 0 - abs ELSE abs]

\* if (argc < 2) { usage; return 1; }
BootArgs ==
    /\ mainpc = "start"
    /\ mainpc' = IF argc < 2 THEN "exit1" ELSE "winsock"
    /\ UNCHANGED <<bootVars, client_sockets, clients_mutex, listener,
                   naccepted, sock, pc, nrecv, buffer, callVars, histVars>>

\* if (!InitializeWinsock()) return 1;
BootWinsock(ok) ==
    /\ mainpc = "winsock"
    /\ mainpc' = IF ok THEN "stoi" ELSE "exit1"
    /\ UNCHANGED <<bootVars, client_sockets, clients_mutex, listener,
                   naccepted, sock, pc, nrecv, buffer, callVars, histVars>>

\* int port = std::stoi(argv[1]); nothing catches what stoi throws, so the
\* process is terminated.
BootStoi ==
    /\ mainpc = "stoi"
    /\ IF Stoi(argv1).ok
       THEN port' = Stoi(argv1).value /\ mainpc' = "socket"
       ELSE port' = port /\ mainpc' = "terminated"
    /\ UNCHANGED <<argc, argv1, client_sockets, clients_mutex, listener,
                   naccepted, sock, pc, nrecv, buffer, callVars, histVars>>

\* server_socket = socket(...); on INVALID_SOCKET return 1.
BootSocket(ok) ==
    /\ mainpc = "socket"
    /\ listener' = IF ok THEN "created" ELSE listener
    /\ mainpc' = IF ok THEN "bind" ELSE "exit1"
    /\ UNCHANGED <<bootVars, client_sockets, clients_mutex,
                   naccepted, sock, pc, nrecv, buffer, callVars, histVars>>

\* address.sin_port = htons(port); bind(...); on SOCKET_ERROR closesocket
\* and return 1.
BootBind(ok) ==
    /\ mainpc = "bind"
    /\ listener' = IF ok THEN "bound" ELSE "closed"
    /\ mainpc' = IF ok THEN "listen" ELSE "exit1"
    /\ UNCHANGED <<bootVars, client_sockets, clients_mutex,
                   naccepted, sock, pc, nrecv, buffer, callVars, histVars>>

\* listen(...); on SOCKET_ERROR closesocket and return 1; else the loop.
BootListen(ok) ==
    /\ mainpc = "listen"
    /\ listener' = IF ok THEN "listening" ELSE "closed"
    /\ mainpc' = IF ok THEN "accept" ELSE "exit1"
    /\ UNCHANGED <<bootVars, client_sockets, clients_mutex,
                   naccepted, sock, pc, nrecv, buffer, callVars, histVars>>

\* --------------------------------------------------------------------- Init
\* The state in which main enters its accept loop, started as
\* "server.exe 8": the listening socket listens, no client is connected.
Init ==
    /\ argc = 2
    /\ argv1 = <<"8">>
    /\ port = Stoi(<<"8">>).value
    /\ client_sockets = <<>>
    /\ clients_mutex = {}
    /\ mainpc = "accept"
    /\ listener = "listening"
    /\ naccepted = 0
    /\ sock = [c \in Conns |-> INVALID_SOCKET]
    /\ pc = [c \in Conns |-> "unborn"]
    /\ nrecv = [c \in Conns |-> 0]
    /\ buffer = [c \in Conns |-> <<>>]
    /\ message = [c \in Conns |-> NoMsg]
    /\ sender = [c \in Conns |-> INVALID_SOCKET]
    /\ it = [c \in Conns |-> 0]
    /\ failed = [c \in Conns |-> 0]
    /\ sentTo = [c \in Conns |-> EmptyBag]
    /\ sentClosed = FALSE
    /\ lastDone = [c \in Conns |-> 0]
    /\ noticeCalls = [c \in Conns |-> 0]

\* --------------------------------------------------------------- main loop
\* main's local client_socket after a successful accept: the SOCKET value of
\* the connection accepted last.
main_socket == IF naccepted = 0 THEN INVALID_SOCKET ELSE sock[naccepted]

\* The SOCKET values accept may return: a value that was closed, or the
\* least value never handed out.
UsedHandles == {sock[c] : c \in 1..naccepted}
NewHandles ==
    (UsedHandles \ OpenHandles) \cup
    {h \in Handles \ UsedHandles : \A g \in Handles \ UsedHandles : h <= g}

\* accept returns a new connection; client_socket /= INVALID_SOCKET, so main
\* goes on to the lock_guard of line 111.
AcceptOk(h) ==
    /\ UNCHANGED bootVars
    /\ mainpc = "accept"
    /\ listener = "listening"
    /\ naccepted < MaxConn
    /\ h \in NewHandles
    /\ naccepted' = naccepted + 1
    /\ sock' = [sock EXCEPT ![naccepted + 1] = h]
    /\ mainpc' = "lock"
    /\ UNCHANGED <<client_sockets, clients_mutex, listener, pc, nrecv, buffer>>
    /\ UNCHANGED callVars
    /\ UNCHANGED histVars

\* accept returns INVALID_SOCKET: the error is logged and the loop continues
\* at accept.  A fatal error (the listening socket is closed) makes every
\* later accept fail in the same way; a transient one changes nothing.
AcceptFail(fatal) ==
    /\ UNCHANGED bootVars
    /\ mainpc = "accept"
    /\ listener = "failed" => fatal
    /\ listener' = IF fatal THEN "failed" ELSE listener
    /\ mainpc' = "accept"
    /\ UNCHANGED <<client_sockets, clients_mutex, naccepted, sock, pc, nrecv, buffer>>
    /\ UNCHANGED callVars
    /\ UNCHANGED histVars

\* std::lock_guard<std::mutex> lock(clients_mutex);
MainLock ==
    /\ UNCHANGED bootVars
    /\ mainpc = "lock"
    /\ CanLock(clients_mutex)
    /\ clients_mutex' = clients_mutex \cup {MainTask}
    /\ mainpc' = "push"
    /\ UNCHANGED <<client_sockets, listener, naccepted, sock, pc, nrecv, buffer>>
    /\ UNCHANGED callVars
    /\ UNCHANGED histVars

\* client_sockets.push_back(client_socket); the guard's scope ends.
MainPush ==
    /\ UNCHANGED bootVars
    /\ mainpc = "push"
    /\ client_sockets' = PushBack(client_sockets, main_socket)
    /\ clients_mutex' = clients_mutex \ {MainTask}
    /\ mainpc' = "spawn"
    /\ UNCHANGED <<listener, naccepted, sock, pc, nrecv, buffer>>
    /\ UNCHANGED callVars
    /\ UNCHANGED histVars

\* std::thread(handle_client, client_socket).detach();
MainSpawn ==
    /\ UNCHANGED bootVars
    /\ mainpc = "spawn"
    /\ pc' = [pc EXCEPT ![naccepted] = "recv"]
    /\ mainpc' = "accept"
    /\ UNCHANGED <<client_sockets, clients_mutex, listener, naccepted, sock,
                   nrecv, buffer>>
    /\ UNCHANGED callVars
    /\ UNCHANGED histVars

\* ------------------------------------------------------------ handle_client
\* recv returns n > 0 bytes: broadcast_msg is built and broadcast_message is
\* called.
RecvData(c, b) ==
    /\ UNCHANGED bootVars
    /\ pc[c] = "recv"
    /\ NumReceived < MaxMsgs
    /\ nrecv' = [nrecv EXCEPT ![c] = nrecv[c] + 1]
    /\ buffer' = [buffer EXCEPT ![c] = b]
    /\ message' = [message EXCEPT ![c] = ChatMsg(c, sock[c], nrecv[c] + 1, b)]
    /\ sender' = [sender EXCEPT ![c] = sock[c]]
    /\ pc' = [pc EXCEPT ![c] = "bc_lock"]
    /\ UNCHANGED <<client_sockets, clients_mutex, it, failed>>
    /\ UNCHANGED mainVars
    /\ UNCHANGED histVars

\* recv returns 0 or SOCKET_ERROR: the else branch.
RecvClosed(c) ==
    /\ UNCHANGED bootVars
    /\ pc[c] = "recv"
    /\ pc' = [pc EXCEPT ![c] = "rm_lock"]
    /\ UNCHANGED <<client_sockets, clients_mutex, nrecv, buffer>>
    /\ UNCHANGED mainVars
    /\ UNCHANGED callVars
    /\ UNCHANGED histVars

\* { std::lock_guard<std::mutex> lock(clients_mutex);
RmLock(c) ==
    /\ UNCHANGED bootVars
    /\ pc[c] = "rm_lock"
    /\ CanLock(clients_mutex)
    /\ clients_mutex' = clients_mutex \cup {c}
    /\ pc' = [pc EXCEPT ![c] = "rm_erase"]
    /\ UNCHANGED <<client_sockets, nrecv, buffer>>
    /\ UNCHANGED mainVars
    /\ UNCHANGED callVars
    /\ UNCHANGED histVars

\*   client_sockets.erase(std::remove(...), ...); }
\* then disconnect_msg is built and broadcast_message(disconnect_msg, -1)
\* is called.
RmErase(c) ==
    /\ UNCHANGED bootVars
    /\ pc[c] = "rm_erase"
    /\ client_sockets' = Erase(client_sockets, sock[c])
    /\ clients_mutex' = clients_mutex \ {c}
    /\ message' = [message EXCEPT ![c] = LeftMsg(c, sock[c])]
    /\ sender' = [sender EXCEPT ![c] = INVALID_SOCKET]
    /\ pc' = [pc EXCEPT ![c] = "bc_lock"]
    /\ UNCHANGED <<nrecv, buffer, it, failed>>
    /\ UNCHANGED mainVars
    /\ UNCHANGED histVars

\* closesocket(client_socket); break;
\* The history of what was sent on the connection ends with the connection.
Close(c) ==
    /\ UNCHANGED bootVars
    /\ pc[c] = "close"
    /\ pc' = [pc EXCEPT ![c] = "done"]
    /\ sentTo' = [sentTo EXCEPT ![c] = EmptyBag]
    /\ UNCHANGED <<client_sockets, clients_mutex, nrecv, buffer, sentClosed, lastDone,
                   noticeCalls>>
    /\ UNCHANGED mainVars
    /\ UNCHANGED callVars

\* -------------------------------------------------------- broadcast_message
\* std::lock_guard<std::mutex> lock(clients_mutex); the range-for begins.
BcLock(c) ==
    /\ UNCHANGED bootVars
    /\ pc[c] = "bc_lock"
    /\ CanLock(clients_mutex)
    /\ clients_mutex' = clients_mutex \cup {c}
    /\ it' = [it EXCEPT ![c] = 1]
    /\ failed' = [failed EXCEPT ![c] = 0]
    /\ pc' = [pc EXCEPT ![c] = "bc_loop"]
    /\ noticeCalls' = [noticeCalls EXCEPT
                          ![c] = IF message[c].kind = "left"
                                 THEN noticeCalls[c] + 1 ELSE noticeCalls[c]]
    /\ UNCHANGED <<client_sockets, nrecv, buffer, message, sender>>
    /\ UNCHANGED mainVars
    /\ UNCHANGED <<sentTo, sentClosed, lastDone>>

\* One iteration of the range-for on an element that is the sender.
BcSkip(c) ==
    /\ UNCHANGED bootVars
    /\ pc[c] = "bc_loop"
    /\ it[c] <= Len(client_sockets)
    /\ ~IsRecipient(client_sockets[it[c]], sender[c])
    /\ it' = [it EXCEPT ![c] = it[c] + 1]
    /\ UNCHANGED <<client_sockets, clients_mutex, pc, nrecv, buffer, message, sender,
                   failed>>
    /\ UNCHANGED mainVars
    /\ UNCHANGED histVars

\* One iteration of the range-for with a send, which succeeds (ok) or
\* returns SOCKET_ERROR (logged).
BcSend(c, ok) ==
    /\ UNCHANGED bootVars
    /\ pc[c] = "bc_loop"
    /\ it[c] <= Len(client_sockets)
    /\ LET socket == client_sockets[it[c]] IN
       /\ IsRecipient(socket, sender[c])
       /\ sentTo' = [r \in Conns |->
                        IF r \in Owner(socket)
                        THEN sentTo[r] (+) SetToBag({message[c]})
                        ELSE sentTo[r]]
       /\ sentClosed' = (sentClosed \/ Owner(socket) = {})
       /\ failed' = [failed EXCEPT
                        ![c] = IF ok \/ failed[c] /= 0 THEN failed[c] ELSE it[c]]
       /\ it' = [it EXCEPT ![c] = AfterSend(it[c], ok, Len(client_sockets))]
    /\ UNCHANGED <<client_sockets, clients_mutex, pc, nrecv, buffer, message,
                   sender>>
    /\ UNCHANGED mainVars
    /\ UNCHANGED <<lastDone, noticeCalls>>

\* The range-for is over; the guard's scope ends; the call returns to the
\* recv loop, or, after a departure notice, to closesocket.  The call's
\* arguments and locals are gone.
BcReturn(c) ==
    /\ UNCHANGED bootVars
    /\ pc[c] = "bc_loop"
    /\ it[c] > Len(client_sockets)
    /\ clients_mutex' = clients_mutex \ {c}
    /\ pc' = [pc EXCEPT ![c] = AfterBroadcast(message[c].kind)]
    /\ message' = [message EXCEPT ![c] = NoMsg]
    /\ sender' = [sender EXCEPT ![c] = INVALID_SOCKET]
    /\ it' = [it EXCEPT ![c] = 0]
    /\ failed' = [failed EXCEPT ![c] = 0]
    /\ sentTo' = [r \in Conns |-> Forget(sentTo[r], message[c])]
    /\ lastDone' = [lastDone EXCEPT
                       ![c] = IF message[c].kind = "chat" THEN message[c].seq
                                                         ELSE lastDone[c]]
    /\ buffer' = [buffer EXCEPT ![c] = <<>>]
    /\ UNCHANGED <<client_sockets, nrecv, sentClosed, noticeCalls>>
    /\ UNCHANGED mainVars

\* --------------------------------------------------------------------- Next
Next ==
    \/ \E h \in Handles : AcceptOk(h)
    \/ \E fatal \in BOOLEAN : AcceptFail(fatal)
    \/ MainLock
    \/ MainPush
    \/ MainSpawn
    \/ \E c \in Conns : RecvData(c, Line)
    \/ \E c \in Conns : RecvClosed(c)
    \/ \E c \in Conns : RmLock(c)
    \/ \E c \in Conns : RmErase(c)
    \/ \E c \in Conns : Close(c)
    \/ \E c \in Conns : BcLock(c)
    \/ \E c \in Conns : BcSkip(c)
    \/ \E c \in Conns : \E ok \in BOOLEAN : BcSend(c, ok)
    \/ \E c \in Conns : BcReturn(c)

Spec == Init /\ [][Next]_vars

\* A step of handler c other than a return of recv: what the thread does on
\* its own once it is scheduled, a send that returns included.
HandlerRun(c) ==
    \/ RmLock(c)
    \/ RmErase(c)
    \/ Close(c)
    \/ BcLock(c)
    \/ BcSkip(c)
    \/ \E ok \in BOOLEAN : BcSend(c, ok)
    \/ BcReturn(c)

\* A step of main between two calls of accept.
MainRun == MainLock \/ MainPush \/ MainSpawn

\* Every thread keeps being scheduled and every send returns; a handler
\* that waits for clients_mutex gets it if it is free again and again.
\* Nothing makes accept or recv return.
Fairness ==
    /\ WF_vars(MainRun)
    /\ \A c \in Conns :
           /\ WF_vars(HandlerRun(c))
           /\ SF_vars(RmLock(c) \/ BcLock(c))

FairSpec == Spec /\ Fairness

\* The same server with recv returning any chunk, not only whole lines.
NextChunks ==
    \/ Next
    \/ \E c \in Conns : \E b \in Chunks : RecvData(c, b)

SpecChunks == Init /\ [][NextChunks]_vars

\* main from its first statement to the accept loop, for every port argument.
InitBoot ==
    /\ argc \in {1, 2}
    /\ argv1 \in (IF argc = 1 THEN {<<>>} ELSE PortStrings)
    /\ port = 0
    /\ client_sockets = <<>>
    /\ clients_mutex = {}
    /\ mainpc = "start"
    /\ listener = "none"
    /\ naccepted = 0
    /\ sock = [c \in Conns |-> INVALID_SOCKET]
    /\ pc = [c \in Conns |-> "unborn"]
    /\ nrecv = [c \in Conns |-> 0]
    /\ buffer = [c \in Conns |-> <<>>]
    /\ message = [c \in Conns |-> NoMsg]
    /\ sender = [c \in Conns |-> INVALID_SOCKET]
    /\ it = [c \in Conns |-> 0]
    /\ failed = [c \in Conns |-> 0]
    /\ sentTo = [c \in Conns |-> EmptyBag]
    /\ sentClosed = FALSE
    /\ lastDone = [c \in Conns |-> 0]
    /\ noticeCalls = [c \in Conns |-> 0]

NextBoot ==
    \/ BootArgs
    \/ \E ok \in BOOLEAN : BootWinsock(ok)
    \/ BootStoi
    \/ \E ok \in BOOLEAN : BootSocket(ok)
    \/ \E ok \in BOOLEAN : BootBind(ok)
    \/ \E ok \in BOOLEAN : BootListen(ok)

SpecBoot == InitBoot /\ [][NextBoot]_vars

\* ================================================================== claims
\* The handler of d has erased its socket from client_sockets.
Removed(d) == message[d].kind = "left" \/ pc[d] \in {"close", "done"}

\* main has pushed the socket of connection c.
Pushed(c) == c < naccepted \/ (c = naccepted /\ mainpc \notin {"lock", "push"})

\* Connection r has an entry in client_sockets.
Registered(r) == IsOpen(r) /\ sock[r] \in Range(client_sockets)

\* The range-for of t's running call is past an entry of connection r.
Passed(t, r) ==
    \E j \in 1..Len(client_sockets) :
        j < it[t] /\ client_sockets[j] = sock[r] /\ IsOpen(r)

\* The range-for of t's running call is over, the lock still held.
AtEnd(t) == pc[t] = "bc_loop" /\ it[t] > Len(client_sockets)

\* The number of entries of client_sockets equal to h.
Entries(h) == Cardinality({i \in 1..Len(client_sockets) : client_sockets[i] = h})

\* C1: in a broadcast of a chunk received from A, each connection other than
\* A whose registry entry the loop has passed has been sent the message
\* exactly once, every other connection, A included, not at all; so at the
\* end of the loop every registered connection but A has been sent it once.
C1_BroadcastToOthersOnce ==
    \A t \in Conns :
        (pc[t] = "bc_loop" /\ message[t].kind = "chat") =>
            \A r \in Conns :
                CopiesIn(message[t], sentTo[r]) =
                    IF r /= t /\ Passed(t, r) THEN 1 ELSE 0

\* A's broadcast is over with A and two other connections registered, both
\* sent the message.
C1_Witness ==
    \E t \in Conns :
        /\ AtEnd(t)
        /\ message[t].kind = "chat"
        /\ Registered(t)
        /\ Cardinality({r \in Conns : r /= t /\ Registered(r)}) >= 2
        /\ \A r \in Conns :
               (r /= t /\ Registered(r)) => CopiesIn(message[t], sentTo[r]) = 1

\* C2: a handler broadcasts at most one departure notice, and exactly one
\* once it is at closesocket or has ended; in that broadcast each connection
\* whose registry entry the loop has passed has been sent the notice exactly
\* once, and the departed connection and every other not at all; a chunk
\* broadcast is never sent to a connection that has departed.
C2_OneDepartureNotice ==
    \A d \in Conns :
        /\ noticeCalls[d] <= 1
        /\ pc[d] \in {"close", "done"} => noticeCalls[d] = 1
        /\ (pc[d] = "bc_loop" /\ message[d].kind = "left") =>
               \A r \in Conns :
                   CopiesIn(message[d], sentTo[r]) =
                       IF r /= d /\ Passed(d, r) THEN 1 ELSE 0
        /\ Removed(d) =>
               \A t \in Conns :
                   (pc[t] = "bc_loop" /\ message[t].kind = "chat") =>
                       CopiesIn(message[t], sentTo[d]) = 0

\* Three clients; the second one's notice has been sent to the first and the
\* third, once each, and not to the second.
C2_Witness ==
    /\ naccepted = 3
    /\ AtEnd(2)
    /\ message[2].kind = "left"
    /\ Registered(1) /\ Registered(3)
    /\ CopiesIn(message[2], sentTo[1]) = 1
    /\ CopiesIn(message[2], sentTo[3]) = 1
    /\ CopiesIn(message[2], sentTo[2]) = 0

\* C3: in no step is a message sent on a connection whose handler has
\* removed it from the registry.
C3_NoSendAfterRemoval ==
    [][\A r \in Conns :
           Removed(r) =>
               \A m \in BagToSet(sentTo'[r]) :
                   CopiesIn(m, sentTo'[r]) <= CopiesIn(m, sentTo[r])]_vars

\* A connection is removed and still open while another handler's broadcast
\* has passed a registered connection.
C3_Witness ==
    \E r, t, q \in Conns :
        /\ Removed(r) /\ IsOpen(r)
        /\ t /= r /\ q /= r /\ q /= t
        /\ pc[t] = "bc_loop"
        /\ CopiesIn(message[t], sentTo[q]) = 1

\* C4: client_sockets holds no value twice, and its entries are exactly the
\* sockets of the connections that main has pushed and whose handler has not
\* erased them, one entry each.
C4_RegistryExact ==
    /\ \A i, j \in 1..Len(client_sockets) :
           i /= j => client_sockets[i] /= client_sockets[j]
    /\ \A c \in Conns :
           (Pushed(c) /\ ~Removed(c)) => Entries(sock[c]) = 1
    /\ \A i \in 1..Len(client_sockets) :
           \E c \in Conns :
               Pushed(c) /\ ~Removed(c) /\ sock[c] = client_sockets[i]

\* Two connections are registered after a third was removed and closed.
C4_Witness ==
    /\ Len(client_sockets) = 2
    /\ \E d \in Conns : pc[d] = "done"
    /\ naccepted = 3

\* C5 (as claimed): no task is at a send while it holds clients_mutex.
C5_SendOutsideLock ==
    \A t \in Conns :
        (/\ pc[t] = "bc_loop"
         /\ it[t] <= Len(client_sockets)
         /\ IsRecipient(client_sockets[it[t]], sender[t]))
        => t \notin clients_mutex

\* The tasks that are at a statement reading or writing client_sockets.
Accessing ==
    {t \in Conns : pc[t] \in {"rm_erase", "bc_loop"}}
    \cup (IF mainpc = "push" THEN {MainTask} ELSE {})

\* C6: a task at a statement that reads or writes client_sockets is the one
\* holder of clients_mutex, so at most one task is at such a statement.
C6_AccessUnderMutex ==
    /\ \A t \in Accessing : clients_mutex = {t}
    /\ Cardinality(Accessing) <= 1

\* A broadcast is iterating while main's push_back and another handler's
\* erase wait for the lock.
C6_Witness ==
    \E t, u \in Conns :
        /\ pc[t] = "bc_loop" /\ it[t] <= Len(client_sockets)
        /\ pc[u] = "rm_lock"
        /\ mainpc = "lock"

\* C7: in a call in which a send has failed, the loop has still sent the
\* message to every non-sender entry it has passed, the ones after the
\* failing one included, and it is never beyond the end of the vector by
\* more than one.
C7_FailureDoesNotAbort ==
    \A t \in Conns :
        (pc[t] = "bc_loop" /\ failed[t] /= 0) =>
            /\ it[t] <= Len(client_sockets) + 1
            /\ \A j \in 1..Len(client_sockets) :
                   (j < it[t] /\ IsRecipient(client_sockets[j], sender[t])) =>
                       \A r \in Owner(client_sockets[j]) :
                           CopiesIn(message[t], sentTo[r]) = 1
            /\ AtEnd(t) =>
                   \A r \in Conns :
                       (Registered(r) /\ sock[r] /= sender[t]) =>
                           CopiesIn(message[t], sentTo[r]) = 1

\* The send to the first recipient failed and the loop is over, a later
\* recipient having been sent the message.
C7_Witness ==
    \E t \in Conns :
        /\ AtEnd(t)
        /\ failed[t] /= 0
        /\ \A j \in 1..Len(client_sockets) :
               (j < failed[t]) => ~IsRecipient(client_sockets[j], sender[t])
        /\ \E j \in 1..Len(client_sockets) :
               /\ j > failed[t]
               /\ IsRecipient(client_sockets[j], sender[t])
               /\ \A r \in Owner(client_sockets[j]) :
                      CopiesIn(message[t], sentTo[r]) = 1

\* C8: chunks are numbered in the order recv returned them.  A chunk of A
\* that is sent to anyone in a step is the chunk A received last and is later
\* than the chunk of every call of A that has returned; the number of the
\* last returned call never decreases.  So the sends on one connection for
\* chunks of A go in the order in which A received them.
C8_SenderOrderKept ==
    [][/\ \A r \in Conns :
              \A m \in BagToSet(sentTo'[r]) :
                  (/\ CopiesIn(m, sentTo'[r]) > CopiesIn(m, sentTo[r])
                   /\ m.kind = "chat")
                  => /\ m.seq = nrecv[m.from]
                     /\ m.seq > lastDone[m.from]
       /\ \A c \in Conns : lastDone'[c] >= lastDone[c]
       /\ \A c \in Conns : nrecv'[c] >= nrecv[c]]_vars

\* The second chunk of a sender is being sent to a connection that was
\* accepted before the sender, after the call for the first chunk returned.
C8_Witness ==
    \E a, r \in Conns :
        /\ r < a
        /\ lastDone[a] = 1
        /\ pc[a] = "bc_loop"
        /\ message[a].seq = 2
        /\ CopiesIn(message[a], sentTo[r]) = 1
        /\ \E u \in Conns : u /= a /\ Removed(u)

\* C9 (as claimed): once accept has failed for good, main is not back at
\* accept.
C9_FatalErrorEndsLoop == ~(listener = "failed" /\ mainpc = "accept")

\* C10: erasing a value that is not in client_sockets leaves it unchanged,
\* erasing a value twice gives what erasing it once gives, and no handler
\* broadcasts a second departure notice.
C10_RemoveIdempotent ==
    /\ \A s \in Handles \cup {INVALID_SOCKET} :
           /\ s \notin Range(client_sockets) =>
                  Erase(client_sockets, s) = client_sockets
           /\ Erase(Erase(client_sockets, s), s) = Erase(client_sockets, s)
    /\ \A d \in Conns : noticeCalls[d] <= 1

\* A handler has erased its socket and broadcast its notice, and the
\* registry still holds two sockets, so that erasing the absent value again
\* would have something to damage.
C10_Witness ==
    \E d \in Conns :
        /\ pc[d] \in {"close", "done"}
        /\ sock[d] \notin Range(client_sockets)
        /\ Len(client_sockets) = 2

\* A port argument that is a port number: digits only, from 1 to 65535.
ValidPort(str) ==
    /\ Len(str) >= 1
    /\ DigitPrefix(str) = Len(str)
    /\ Decimal(str, Len(str)) \in 1..65535

\* C11 (as claimed): started with a port argument that is no port number,
\* main never creates, binds or listens on a socket, never enters the accept
\* loop, and ends with a non-zero exit.
C11_BadPortOpensNothing ==
    (argc >= 2 /\ ~ValidPort(argv1)) =>
        /\ listener = "none"
        /\ mainpc \in {"start", "winsock", "stoi", "exit1", "terminated"}

\* How far handler c is: 0 before its recv fails (unborn or Active),
\* 1 in the else branch before the erase, 2 in the broadcast of its notice,
\* 3 before closesocket, 4 returned.
Phase(c) ==
    CASE pc[c] \in {"rm_lock", "rm_erase"} -> 1
      [] pc[c] \in {"bc_lock", "bc_loop"} /\ message[c].kind = "left" -> 2
      [] pc[c] = "close" -> 3
      [] pc[c] = "done" -> 4
      [] OTHER -> 0

\* C12: a handler leaves in this order: it erases its socket, broadcasts
\* its notice, closes its socket, returns.  No step skips one of these, the
\* notice and the close come with the socket out of client_sockets, and the
\* close and the return come after the one notice.
C12_ClosingOrder ==
    /\ [](\A c \in Conns :
            /\ Phase(c) \in {2, 3} => Entries(sock[c]) = 0
            /\ Phase(c) = 2 => noticeCalls[c] <= 1
            /\ Phase(c) \in {3, 4} => noticeCalls[c] = 1)
    /\ [][\A c \in Conns :
            /\ Phase(c)' \in {Phase(c), Phase(c) + 1}
            /\ (Phase(c) = 3 /\ Phase(c)' = 4) => Entries(sock[c]) = 0]_vars

\* A handler has returned, with another connection still in client_sockets.
C12_Witness ==
    \E c \in Conns : \E r \in Conns :
        Phase(c) = 4 /\ noticeCalls[c] = 1 /\ Registered(r)

\* C13: the entry of an open connection X leaves client_sockets only in the
\* erase of X's own handler; no step taken while a broadcast runs, a failed
\* send included, changes client_sockets; and a step of another handler,
\* its failed recv, its erase or its close, changes neither the position of
\* X's handler nor whether X is in client_sockets.
C13_OnlyOwnHandlerRemoves ==
    [][\A x \in Conns :
        /\ (Registered(x) /\ ~Registered(x)') =>
               (pc[x] = "rm_erase" /\ pc'[x] = "bc_lock")
        /\ (pc[x] = "bc_loop" \/ failed'[x] /= failed[x]) =>
               client_sockets' = client_sockets
        /\ \A d \in Conns \ {x} :
               pc'[d] /= pc[d] =>
                   /\ pc'[x] = pc[x]
                   /\ Registered(x)' = Registered(x)]_vars

\* In the broadcast of another handler's notice the send to X has failed,
\* and X is still in client_sockets, its handler at recv.
C13_Witness ==
    \E t \in Conns : \E x \in Conns \ {t} :
        /\ pc[t] = "bc_loop"
        /\ message[t].kind = "left"
        /\ failed[t] > 0
        /\ failed[t] <= Len(client_sockets)
        /\ client_sockets[failed[t]] = sock[x]
        /\ Registered(x)
        /\ pc[x] = "recv"

\* C14: a handler that has started has had its socket pushed; until its own
\* erase the socket is in client_sockets, once; and an entry equal to the
\* socket of a returned handler is the socket of an open connection that was
\* accepted later with the same value.
C14_AddBeforeHandler ==
    \A c \in Conns :
        /\ pc[c] /= "unborn" => Pushed(c)
        /\ (pc[c] /= "unborn" /\ Phase(c) \in {0, 1}) => Entries(sock[c]) = 1
        /\ pc[c] = "done" =>
               \A i \in 1..Len(client_sockets) :
                   client_sockets[i] = sock[c] =>
                       \E d \in Conns :
                           d > c /\ IsOpen(d) /\ Pushed(d) /\ sock[d] = sock[c]

\* A handler has returned and its SOCKET value, given to a later
\* connection, is in client_sockets again.
C14_Witness ==
    \E c \in Conns : \E d \in Conns :
        /\ pc[c] = "done"
        /\ d > c
        /\ sock[d] = sock[c]
        /\ Registered(d)
        /\ pc[d] = "recv"

\* The handlers inside the range-for of broadcast_message.
InLoop == {t \in Conns : pc[t] = "bc_loop"}

\* C17: broadcasts run one at a time, each as a whole: at most one call is
\* in its loop, every message sent by a call that has not returned is the
\* message of that call, and a call enters its loop only when every earlier
\* call has returned; so no send of one broadcast falls between two sends of
\* another, and two recipients are sent two broadcasts in the same order.
C17_BroadcastsSerialized ==
    /\ [](/\ Cardinality(InLoop) <= 1
          /\ \A r \in Conns : \A m \in BagToSet(sentTo[r]) :
                 \E t \in InLoop : message[t] = m)
    /\ [][\A t \in Conns :
            (pc[t] = "bc_lock" /\ pc'[t] = "bc_loop") =>
                \A r \in Conns : sentTo[r] = EmptyBag]_vars

\* One broadcast has sent to two recipients while another, already
\* requested, waits for the lock.
C17_Witness ==
    \E t \in Conns : \E u \in Conns \ {t} :
        /\ pc[t] = "bc_loop"
        /\ pc[u] = "bc_lock"
        /\ \E r1 \in Conns : \E r2 \in Conns \ {r1} :
               /\ BagIn(message[t], sentTo[r1])
               /\ BagIn(message[t], sentTo[r2])

\* C18: send is never called on a closed socket, every entry of
\* client_sockets is an open socket, and a socket is closed only by the
\* closesocket of its own handler, after that handler's erase.
C18_NoUseAfterClose ==
    /\ [](/\ sentClosed = FALSE
          /\ Range(client_sockets) \subseteq OpenHandles)
    /\ [][\A c \in Conns :
            (IsOpen(c) /\ ~IsOpen(c)') =>
                /\ pc[c] = "close"
                /\ noticeCalls[c] = 1
                /\ sock[c] \notin Range(client_sockets)]_vars

\* A socket has been closed while a broadcast is sending to the others.
C18_Witness ==
    \E c \in Conns : \E t \in Conns \ {c} : \E r \in Conns \ {c, t} :
        /\ pc[c] = "done"
        /\ pc[t] = "bc_loop"
        /\ BagIn(message[t], sentTo[r])

\* The broadcast call of handler t relays a chunk.
Relaying(t) == pc[t] \in {"bc_lock", "bc_loop"} /\ message[t].kind = "chat"

\* C15: with the handler threads scheduled fairly and every send
\* returning, a handler whose recv has returned 0 or an error returns, and
\* it closes and returns with its socket out of client_sockets; from the
\* failed recv on it is never at recv again and receives nothing more.
C15_FailedRecvTerminates ==
    /\ \A c \in Conns : (pc[c] = "rm_lock") ~> (pc[c] = "done")
    /\ [][\A c \in Conns :
            /\ (pc[c] /= "done" /\ pc'[c] = "done") =>
                   sock[c] \notin Range(client_sockets)
            /\ Phase(c) >= 1 =>
                   (pc'[c] /= "recv" /\ nrecv'[c] = nrecv[c])]_vars

\* A handler whose recv failed has returned while another handler relays.
C15_Witness ==
    \E c \in Conns : \E t \in Conns \ {c} :
        /\ pc[c] = "done"
        /\ noticeCalls[c] = 1
        /\ Relaying(t)
        /\ pc[t] = "bc_loop"

\* C16: the payload of the broadcast that follows a recv of n > 0 bytes is
\* the tag "Client <handle>: " followed by exactly the n bytes recv returned,
\* nothing added after them and none dropped; every copy sent to a recipient
\* is that payload; and one recv makes one broadcast: the handler has one
\* chunk not yet broadcast while it relays and none otherwise, so chunks are
\* neither split nor merged.
C16_PayloadIsTagThenChunk ==
    /\ \A t \in Conns :
        /\ Relaying(t) =>
            /\ buffer[t] \in Chunks
            /\ message[t].text =
                   <<"Client ", ToString(sock[t]), ": ">> \o buffer[t]
            /\ Len(message[t].text) = 3 + Len(buffer[t])
            /\ nrecv[t] - lastDone[t] = 1
        /\ ~Relaying(t) => nrecv[t] = lastDone[t]
    /\ \A r \in Conns : \A m \in BagToSet(sentTo[r]) :
        m.kind = "chat" =>
            /\ Relaying(m.from)
            /\ m.text = <<"Client ", ToString(sock[m.from]), ": ">>
                            \o buffer[m.from]
            /\ CopiesIn(m, sentTo[r]) = 1

\* A recipient has been sent a chunk of two bytes that holds a newline in
\* its middle or is only part of a line.
C16_Witness ==
    \E t \in Conns : \E r \in Conns \ {t} :
        /\ Relaying(t)
        /\ Len(buffer[t]) = MaxChunk
        /\ buffer[t][1] = "\n"
        /\ BagIn(message[t], sentTo[r])

\* C20: SOCKET values are reused, and still: no two open connections have
\* the same value and client_sockets holds no value twice; the erase of a
\* handler takes out one entry and no other connection's; and an entry the
\* sender test of a broadcast skips is the caller's own.
C20_ReuseIsSafe ==
    /\ [](\A h \in Handles :
            /\ Entries(h) <= 1
            /\ Cardinality(Owner(h)) <= 1)
    /\ [][\A t \in Conns :
            /\ (pc[t] = "rm_erase" /\ pc'[t] /= "rm_erase") =>
                   /\ Len(client_sockets') = Len(client_sockets) - 1
                   /\ \A d \in Conns \ {t} : Registered(d)' = Registered(d)
            /\ (/\ pc[t] = "bc_loop"
                /\ it'[t] = it[t] + 1
                /\ sentTo' = sentTo
                /\ sentClosed' = sentClosed) =>
                   Owner(client_sockets[it[t]]) = {t}]_vars

\* A connection was given the SOCKET value of a closed one, and its
\* broadcast has skipped its own entry and sent to another connection.
C20_Witness ==
    \E c \in Conns : \E d \in Conns : \E r \in Conns \ {d} :
        /\ c < d
        /\ pc[c] = "done"
        /\ sock[d] = sock[c]
        /\ Relaying(d)
        /\ Passed(d, d)
        /\ BagIn(message[d], sentTo[r])

\* The handler of x has begun the broadcast of its notice.
NoticeStarted(x) == noticeCalls[x] >= 1

\* Every chunk handler x received has been broadcast, the call returned.
ChatsDone(x) == ~Relaying(x) /\ lastDone[x] = nrecv[x]

\* C19 (as claimed): once the broadcast of X's notice has started, every
\* chat message of X has been sent to its recipients, and no chat message
\* carrying X's tag, "Client <SOCKET value of X>", is sent to anyone.
C19_NoTagAfterNotice ==
    /\ \A x \in Conns : NoticeStarted(x) => ChatsDone(x)
    /\ \A r \in Conns : \A m \in BagToSet(sentTo[r]) :
           m.kind = "chat" =>
               \A x \in Conns :
                   client_id(sock[x]) = client_id(m.id) => ~NoticeStarted(x)

\* C19 (amended): once the broadcast of X's notice has started, every chat
\* message of X has been sent to its recipients, the handler of X receives
\* no further chunk, and no chat message of X's own session is sent to
\* anyone.  A later connection that was given X's SOCKET value sends under
\* the same tag.
C19_NoOwnChatAfterNotice ==
    /\ [](/\ \A x \in Conns : NoticeStarted(x) => ChatsDone(x)
          /\ \A r \in Conns : \A m \in BagToSet(sentTo[r]) :
                 m.kind = "chat" => ~NoticeStarted(m.from))
    /\ [][\A x \in Conns : NoticeStarted(x) => nrecv'[x] = nrecv[x]]_vars

\* The notice of X has been sent to a recipient after a chat message of X
\* was broadcast.
C19_Witness ==
    \E x \in Conns : \E r \in Conns \ {x} :
        /\ lastDone[x] >= 1
        /\ message[x].kind = "left"
        /\ BagIn(message[x], sentTo[r])

TypeOK ==
    /\ \A i \in 1..Len(client_sockets) : client_sockets[i] \in Handles
    /\ clients_mutex \subseteq Tasks
    /\ mainpc \in {"start", "winsock", "stoi", "socket", "bind", "listen",
                   "accept", "lock", "push", "spawn", "exit1", "terminated"}
    /\ listener \in {"none", "created", "bound", "listening", "closed",
                     "failed"}
    /\ argc \in {1, 2}
    /\ argv1 \in PortStrings
    /\ port \in (0 - IntMax)..IntMax
    /\ naccepted \in 0..MaxConn
    /\ \A c \in Conns :
           /\ pc[c] \in {"unborn", "recv", "bc_lock", "bc_loop", "rm_lock",
                         "rm_erase", "close", "done"}
           /\ sock[c] \in Handles \cup {INVALID_SOCKET}
           /\ nrecv[c] \in 0..MaxMsgs
           /\ buffer[c] \in Chunks \cup {<<>>}
====
